---- MODULE Spec2Model ----
\* Entity resolution and graph upsert of backend/ner.py: the per-page
\* normalisation, deduplication, pair derivation and provenance encoding, and
\* the MERGE-based writes it issues against the graph store.
\*
\* A Python str is modelled as a sequence of characters; a character is a
\* one-character string, except the three Greek sigmas, which are written by
\* their code point name.
EXTENDS Integers, Sequences, FiniteSets, TLC

VARIABLES env, pages, pc, i, cidx, unique, batches, pairs, nodes, edges,
          writes, out, norm, enc

vars == <<env, pages, pc, i, cidx, unique, batches, pairs, nodes, edges,
          writes, out, norm, enc>>

pipeVars == <<env, pages, pc, i, cidx, unique, batches, pairs, nodes, edges,
              writes, out>>

----------------------------------------------------------------------------
\* Bounds of the model.

MaxPages == 3
MaxLen == 3
MaxSnippet == 3

----------------------------------------------------------------------------
\* Characters and Python's str operations.

\* The characters 32..126 in code point order; the backslash and the grave
\* accent are written by their code point name.
Ascii == <<" ", "!", "\"", "#", "$", "%", "&", "'", "(", ")", "*", "+", ",", "-", ".", "/", "0", "1", "2", "3", "4", "5", "6", "7", "8", "9", ":", ";", "<", "=", ">", "?", "@", "A", "B", "C", "D", "E", "F", "G", "H", "I", "J", "K", "L", "M", "N", "O", "P", "Q", "R", "S", "T", "U", "V", "W", "X", "Y", "Z", "[", "U+005C", "]", "^", "_", "U+0060", "a", "b", "c", "d", "e", "f", "g", "h", "i", "j", "k", "l", "m", "n", "o", "p", "q", "r", "s", "t", "u", "v", "w", "x", "y", "z", "{", "|", "}", "~">>

CapSigma == "U+03A3"
SmallSigma == "U+03C3"
FinalSigma == "U+03C2"

\* Code point of a character (the order Python compares str by).
Ord(c) ==
    CASE c = "\t" -> 9
      [] c = "\n" -> 10
      [] c = CapSigma -> 931
      [] c = FinalSigma -> 962
      [] c = SmallSigma -> 963
      [] OTHER -> 31 + (CHOOSE k \in 1..Len(Ascii) : Ascii[k] = c)

Chr(n) == Ascii[n - 31]

\* str.isspace() on the characters of the model.
IsSpace(c) == c \in {" ", "\t", "\n"}

IsUpperAscii(c) == c \notin {"\t", "\n", CapSigma, SmallSigma, FinalSigma}
                   /\ Ord(c) \in 65..90

IsLowerAscii(c) == c \notin {"\t", "\n", CapSigma, SmallSigma, FinalSigma}
                   /\ Ord(c) \in 97..122

\* Unicode property Cased (letters that have a case).
IsCased(c) == c \in {CapSigma, SmallSigma, FinalSigma}
              \/ IsUpperAscii(c) \/ IsLowerAscii(c)

\* Unicode property Case_Ignorable, on the characters of the model.
IsCaseIgnorable(c) == c \in {"'", ".", ":", "^", "U+0060"}

\* s < t for Python str: lexicographic by code point, a proper prefix first.
RECURSIVE StrLess(_, _)
StrLess(s, t) ==
    IF t = <<>> THEN FALSE
    ELSE IF s = <<>> THEN TRUE
    ELSE IF Head(s) = Head(t) THEN StrLess(Tail(s), Tail(t))
    ELSE Ord(Head(s)) < Ord(Head(t))

RECURSIVE LStrip(_)
LStrip(s) == IF s # <<>> /\ IsSpace(Head(s)) THEN LStrip(Tail(s)) ELSE s

RECURSIVE RStrip(_)
RStrip(s) ==
    IF s # <<>> /\ IsSpace(s[Len(s)]) THEN RStrip(SubSeq(s, 1, Len(s) - 1))
    ELSE s

\* str.strip()
Strip(s) == RStrip(LStrip(s))

\* str.split() without arguments: the maximal runs of non-space characters.
RECURSIVE SplitFrom(_, _, _)
SplitFrom(s, cur, acc) ==
    IF s = <<>> THEN (IF cur = <<>> THEN acc ELSE Append(acc, cur))
    ELSE IF IsSpace(Head(s))
         THEN SplitFrom(Tail(s), <<>>, IF cur = <<>> THEN acc ELSE Append(acc, cur))
         ELSE SplitFrom(Tail(s), Append(cur, Head(s)), acc)

Split(s) == SplitFrom(s, <<>>, <<>>)

\* sep.join(parts)
RECURSIVE Join(_, _)
Join(sep, parts) ==
    IF parts = <<>> THEN <<>>
    ELSE IF Len(parts) = 1 THEN parts[1]
    ELSE parts[1] \o sep \o Join(sep, Tail(parts))

\* Is there a cased character before position k, skipping case-ignorable ones?
RECURSIVE CasedBefore(_, _)
CasedBefore(s, k) ==
    IF k <= 1 THEN FALSE
    ELSE IF IsCaseIgnorable(s[k - 1]) THEN CasedBefore(s, k - 1)
    ELSE IsCased(s[k - 1])

RECURSIVE CasedAfter(_, _)
CasedAfter(s, k) ==
    IF k >= Len(s) THEN FALSE
    ELSE IF IsCaseIgnorable(s[k + 1]) THEN CasedAfter(s, k + 1)
    ELSE IsCased(s[k + 1])

\* One character of str.lower(): ASCII capitals shift by 32; a capital sigma
\* becomes the final sigma at the end of a word and the small sigma elsewhere.
LowerAt(s, k) ==
    IF s[k] = CapSigma
    THEN (IF CasedBefore(s, k) /\ ~CasedAfter(s, k) THEN FinalSigma ELSE SmallSigma)
    ELSE IF IsUpperAscii(s[k]) THEN Chr(Ord(s[k]) + 32)
    ELSE s[k]

\* str.lower()
Lower(s) == [k \in 1..Len(s) |-> LowerAt(s, k)]

norm_text(s) == Join(<<" ">>, Split(Strip(s)))

\* The characters of a spaCy entity label.
TagChars(tag) ==
    CASE tag = "PERSON" -> <<"P", "E", "R", "S", "O", "N">>
      [] tag = "LOC" -> <<"L", "O", "C">>
      [] tag = "ORG" -> <<"O", "R", "G">>
      [] tag = "GPE" -> <<"G", "P", "E">>

\* Variant: the identity is the lowered name alone, without the type.
make_entity_id_notype(ent_type, name) ==
    Lower(norm_text(name))

\* Variant: the name is not lowered.
make_entity_id_keepcase(ent_type, name) ==
    TagChars(ent_type) \o <<":">> \o norm_text(name)

make_entity_id(ent_type, name) ==
    TagChars(ent_type) \o <<":">> \o Lower(norm_text(name))

----------------------------------------------------------------------------
\* Module constants of ner.py.

\* Variant: the commented-out ORG is allowed.
ALLOWED_TYPES_org == {"PERSON", "LOC", "ORG"}

ALLOWED_TYPES == {"PERSON", "LOC"}

\* LABEL_MAP.get(type, "Person")
LABEL_MAP(type) ==
    CASE type = "PERSON" -> "Person"
      [] type = "LOC" -> "Location"
      [] OTHER -> "Person"

CONSTRAINTS == <<"person_id_unique", "location_id_unique">>

REF_SEP == <<"|", "|", "|">>

EnvVars == {"NEO4J_URI", "NEO4J_USER", "NEO4J_PASSWORD"}

----------------------------------------------------------------------------
\* Provenance references.

\* str(n) of a natural number.
RECURSIVE IntStr(_)
IntStr(n) ==
    IF n < 10 THEN <<Chr(48 + n)>>
    ELSE Append(IntStr(n \div 10), Chr(48 + (n % 10)))

\* page.get(key, '') as an f-string renders it.
Field(page, key) ==
    IF key \notin DOMAIN page THEN <<>>
    ELSE IF key = "page_number" THEN IntStr(page[key])
    ELSE page[key]

make_ref_simple(page) ==
    Field(page, "doc_id") \o <<"|">> \o Field(page, "page_id") \o <<"|">>
        \o Field(page, "source_uri")

\* Variant: the snippet is joined with the field separator.
make_ref_bar(page, snippet) ==
    Field(page, "doc_id") \o <<"|">> \o Field(page, "page_id") \o <<"|">>
        \o Field(page, "page_number") \o <<"|">> \o Field(page, "source_uri")
        \o <<"|">> \o snippet

make_ref(page, snippet) ==
    LET meta == Field(page, "doc_id") \o <<"|">> \o Field(page, "page_id")
                    \o <<"|">> \o Field(page, "page_number") \o <<"|">>
                    \o Field(page, "source_uri")
    IN meta \o REF_SEP \o snippet

----------------------------------------------------------------------------
\* The NER collaborator's document: the text, its entity spans and its
\* sentence spans, with Python's 0-based half-open character offsets.

\* s[a:b]
Slice(s, a, b) ==
    LET lo == IF a < 0 THEN 0 ELSE a
        hi == IF b > Len(s) THEN Len(s) ELSE b
    IN SubSeq(s, lo + 1, hi)

EntText(doc, ent) == Slice(doc.text, ent.start_char, ent.end_char)

get_snippet_for_entity(doc, ent) ==
    LET hits == {k \in 1..Len(doc.sents) :
                    /\ doc.sents[k].start_char <= ent.start_char
                    /\ ent.start_char < doc.sents[k].end_char}
    IN IF hits # {}
       THEN LET k == CHOOSE h \in hits : \A g \in hits : h <= g
            IN Strip(Slice(doc.text, doc.sents[k].start_char, doc.sents[k].end_char))
       ELSE Strip(Slice(doc.text, ent.start_char - 80, ent.end_char + 80))

----------------------------------------------------------------------------
\* The per-page computation of main().

HasKey(d, eid) == \E k \in 1..Len(d) : d[k].entity_id = eid

\* Variant: every allowed mention is kept, a list instead of the dict.
RECURSIVE Dedup_nodedup(_, _, _, _)
Dedup_nodedup(page, doc, k, acc) ==
    IF k > Len(doc.ents) THEN acc
    ELSE LET ent == doc.ents[k]
             eid == make_entity_id(ent.label_, EntText(doc, ent))
             rec == [entity_id |-> eid,
                     type |-> ent.label_,
                     name |-> norm_text(EntText(doc, ent)),
                     ref |-> make_ref(page, get_snippet_for_entity(doc, ent))]
         IN IF ent.label_ \notin ALLOWED_TYPES
            THEN Dedup_nodedup(page, doc, k + 1, acc)
            ELSE Dedup_nodedup(page, doc, k + 1, Append(acc, rec))

\* Variant: unique[eid] = record, the last mention of an entity_id wins.
RECURSIVE Dedup_lastwins(_, _, _, _)
Dedup_lastwins(page, doc, k, acc) ==
    IF k > Len(doc.ents) THEN acc
    ELSE LET ent == doc.ents[k]
             eid == make_entity_id(ent.label_, EntText(doc, ent))
             rec == [entity_id |-> eid,
                     type |-> ent.label_,
                     name |-> norm_text(EntText(doc, ent)),
                     ref |-> make_ref(page, get_snippet_for_entity(doc, ent))]
         IN IF ent.label_ \notin ALLOWED_TYPES
            THEN Dedup_lastwins(page, doc, k + 1, acc)
            ELSE IF HasKey(acc, eid)
            THEN Dedup_lastwins(page, doc, k + 1,
                     [h \in 1..Len(acc) |->
                         IF acc[h].entity_id = eid THEN rec ELSE acc[h]])
            ELSE Dedup_lastwins(page, doc, k + 1, Append(acc, rec))

\* The loop over doc.ents: unique.setdefault(eid, record) keeps the first
\* record of an entity_id, in insertion order.
RECURSIVE Dedup(_, _, _, _)
Dedup(page, doc, k, acc) ==
    IF k > Len(doc.ents) THEN acc
    ELSE LET ent == doc.ents[k]
             eid == make_entity_id(ent.label_, EntText(doc, ent))
             rec == [entity_id |-> eid,
                     type |-> ent.label_,
                     name |-> norm_text(EntText(doc, ent)),
                     ref |-> make_ref(page, get_snippet_for_entity(doc, ent))]
         IN IF ent.label_ \notin ALLOWED_TYPES THEN Dedup(page, doc, k + 1, acc)
            ELSE IF HasKey(acc, eid) THEN Dedup(page, doc, k + 1, acc)
            ELSE Dedup(page, doc, k + 1, Append(acc, rec))

UniqueOf(page) == Dedup(page, page, 1, <<>>)

\* by_label.setdefault(label, []).append(e), in insertion order of labels.
RECURSIVE GroupByLabel(_, _)
GroupByLabel(entities, acc) ==
    IF entities = <<>> THEN acc
    ELSE LET e == Head(entities)
             label == LABEL_MAP(e.type)
             at == {k \in 1..Len(acc) : acc[k].label = label}
         IN IF at = {}
            THEN GroupByLabel(Tail(entities),
                              Append(acc, [label |-> label, entities |-> <<e>>]))
            ELSE LET k == CHOOSE h \in at : TRUE
                 IN GroupByLabel(Tail(entities),
                        [acc EXCEPT ![k].entities = Append(@, e)])

\* sorted(keys): insertion sort by the str order.
RECURSIVE InsertSorted(_, _)
InsertSorted(s, x) ==
    IF s = <<>> THEN <<x>>
    ELSE IF StrLess(x, Head(s)) THEN <<x>> \o s
    ELSE <<Head(s)>> \o InsertSorted(Tail(s), x)

RECURSIVE SortedFrom(_, _)
SortedFrom(s, acc) ==
    IF s = <<>> THEN acc ELSE SortedFrom(Tail(s), InsertSorted(acc, Head(s)))

Sorted(s) == SortedFrom(s, <<>>)

Keys(d) == [k \in 1..Len(d) |-> d[k].entity_id]

\* Variant: only neighbours are paired, zip(eids, eids[1:]).
Combinations2_adjacent(s) == [k \in 1..(Len(s) - 1) |-> <<s[k], s[k + 1]>>]

\* itertools.combinations(eids, 2), in its order of generation.
RECURSIVE Combinations2(_)
Combinations2(s) ==
    IF Len(s) < 2 THEN <<>>
    ELSE [k \in 1..(Len(s) - 1) |-> <<s[1], s[k + 1]>>] \o Combinations2(Tail(s))

\* Variant: the keys are paired in insertion order, unsorted.
PairOrder_unsorted(d) == Keys(d)

\* The order in which the keys are paired.
PairOrder(d) == Sorted(Keys(d))

PairsOf(page, d) ==
    LET combos == Combinations2(PairOrder(d))
    IN [k \in 1..Len(combos) |->
           [a_id |-> combos[k][1], b_id |-> combos[k][2],
            ref |-> make_ref_simple(page)]]

----------------------------------------------------------------------------
\* The graph store: nodes and edges are objects of their own (a node is known
\* by its position in nodes), and the two Cypher statements act on them.

\* Variant: CREATE instead of MERGE.
MergeNode_create(ns, label, e) ==
    Append(ns, [label |-> label, entity_id |-> e.entity_id,
                name |-> e.name, refs |-> <<e.ref>>])

\* Variant: SET n.refs = [e.ref], the list is replaced.
MergeNode_replace(ns, label, e) ==
    LET hit == {k \in 1..Len(ns) :
                   ns[k].label = label /\ ns[k].entity_id = e.entity_id}
        all == IF hit # {} THEN ns
               ELSE Append(ns, [label |-> label, entity_id |-> e.entity_id,
                                name |-> <<>>, refs |-> <<>>])
        set == IF hit # {} THEN hit ELSE {Len(ns) + 1}
    IN [k \in 1..Len(all) |->
           IF k \in set
           THEN [all[k] EXCEPT !.name = e.name, !.refs = <<e.ref>>]
           ELSE all[k]]

\* Variant: ON CREATE SET n.name, the name of the first page is kept.
MergeNode_keepname(ns, label, e) ==
    LET hit == {k \in 1..Len(ns) :
                   ns[k].label = label /\ ns[k].entity_id = e.entity_id}
        all == IF hit # {} THEN ns
               ELSE Append(ns, [label |-> label, entity_id |-> e.entity_id,
                                name |-> e.name, refs |-> <<>>])
        set == IF hit # {} THEN hit ELSE {Len(ns) + 1}
    IN [k \in 1..Len(all) |->
           IF k \in set
           THEN [all[k] EXCEPT !.refs = Append(@, e.ref)]
           ELSE all[k]]

\* MERGE (n:LABEL {entity_id: e.entity_id}) SET n.name, n.refs, for one row.
MergeNode(ns, label, e) ==
    LET hit == {k \in 1..Len(ns) :
                   ns[k].label = label /\ ns[k].entity_id = e.entity_id}
        all == IF hit # {} THEN ns
               ELSE Append(ns, [label |-> label, entity_id |-> e.entity_id,
                                name |-> <<>>, refs |-> <<>>])
        set == IF hit # {} THEN hit ELSE {Len(ns) + 1}
    IN [k \in 1..Len(all) |->
           IF k \in set
           THEN [all[k] EXCEPT !.name = e.name, !.refs = Append(@, e.ref)]
           ELSE all[k]]

\* UPSERT_ENTITY: UNWIND $entities AS e ...
RECURSIVE UpsertEntity(_, _, _)
UpsertEntity(ns, label, entities) ==
    IF entities = <<>> THEN ns
    ELSE UpsertEntity(MergeNode(ns, label, Head(entities)), label, Tail(entities))

\* Variant: CREATE instead of MERGE.
MergeEdge_create(es, a, b, ref) ==
    Append(es, [src |-> a, dst |-> b, count |-> 1, refs |-> <<ref>>])

\* Variant: SET r.count = 1.
MergeEdge_reset(es, a, b, ref) ==
    LET hit == {k \in 1..Len(es) : es[k].src = a /\ es[k].dst = b}
        all == IF hit # {} THEN es
               ELSE Append(es, [src |-> a, dst |-> b, count |-> 0, refs |-> <<>>])
        set == IF hit # {} THEN hit ELSE {Len(es) + 1}
    IN [k \in 1..Len(all) |->
           IF k \in set
           THEN [all[k] EXCEPT !.count = 1, !.refs = Append(@, ref)]
           ELSE all[k]]

\* Variant: SET r.refs = [p.ref], the list is replaced while count grows.
MergeEdge_overwrite(es, a, b, ref) ==
    LET hit == {k \in 1..Len(es) : es[k].src = a /\ es[k].dst = b}
        all == IF hit # {} THEN es
               ELSE Append(es, [src |-> a, dst |-> b, count |-> 0, refs |-> <<>>])
        set == IF hit # {} THEN hit ELSE {Len(es) + 1}
    IN [k \in 1..Len(all) |->
           IF k \in set
           THEN [all[k] EXCEPT !.count = @ + 1, !.refs = <<ref>>]
           ELSE all[k]]

\* MERGE (a)-[r:RELATES_TO]->(b) SET r.count, r.refs, for one row (a, b).
MergeEdge(es, a, b, ref) ==
    LET hit == {k \in 1..Len(es) : es[k].src = a /\ es[k].dst = b}
        all == IF hit # {} THEN es
               ELSE Append(es, [src |-> a, dst |-> b, count |-> 0, refs |-> <<>>])
        set == IF hit # {} THEN hit ELSE {Len(es) + 1}
    IN [k \in 1..Len(all) |->
           IF k \in set
           THEN [all[k] EXCEPT !.count = @ + 1, !.refs = Append(@, ref)]
           ELSE all[k]]

\* The rows of one pair: every node matching a_id with every node matching
\* b_id, whatever their labels.
RECURSIVE MergeRows(_, _, _)
MergeRows(es, rows, ref) ==
    IF rows = <<>> THEN es
    ELSE MergeRows(MergeEdge(es, Head(rows)[1], Head(rows)[2], ref), Tail(rows), ref)

RECURSIVE SetToSeq(_)
SetToSeq(S) ==
    IF S = {} THEN <<>>
    ELSE LET x == CHOOSE y \in S : \A z \in S : y[1] < z[1] \/ (y[1] = z[1] /\ y[2] <= z[2])
         IN <<x>> \o SetToSeq(S \ {x})

\* Variant: MATCH (a:Person {entity_id: p.a_id}), (b:Person {entity_id: p.b_id}).
MatchRows_person(ns, p) ==
    SetToSeq({<<a, b>> :
        a \in {k \in 1..Len(ns) : ns[k].label = "Person" /\ ns[k].entity_id = p.a_id},
        b \in {k \in 1..Len(ns) : ns[k].label = "Person" /\ ns[k].entity_id = p.b_id}})

MatchRows(ns, p) ==
    SetToSeq({<<a, b>> : a \in {k \in 1..Len(ns) : ns[k].entity_id = p.a_id},
                         b \in {k \in 1..Len(ns) : ns[k].entity_id = p.b_id}})

\* UPSERT_EDGE: UNWIND $pairs AS p ...
RECURSIVE UpsertEdge(_, _, _)
UpsertEdge(ns, es, prs) ==
    IF prs = <<>> THEN es
    ELSE UpsertEdge(ns, MergeRows(es, MatchRows(ns, Head(prs)), Head(prs).ref),
                    Tail(prs))

----------------------------------------------------------------------------
\* The input pages (DATA_PATH), each with the document the NER model makes of
\* its text.

\* The page of the specification's scenario.
PageD1 ==
    [doc_id |-> <<"D", "1">>,
     page_id |-> <<"D", "1", "#", "p", "0", "1">>,
     page_number |-> 1,
     source_uri |-> <<"f", "i", "l", "e", ":", "/", "/", "d", "1", ".", "p", "d", "f">>,
     text |->
       <<"A", "l", "i", "c", "e", " ", "m", "e", "t", " ", "B", "o", "b", " ", "i", "n", " ", "P", "a", "r", "i", "s", ".", " ", "A", "l", "i", "c", "e", " ", "a", "n", "d", " ", "B", "o", "b", " ", "s", "p", "o", "k", "e", ".">>,
     ents |-> <<[label_ |-> "PERSON", start_char |-> 0, end_char |-> 5],
               [label_ |-> "PERSON", start_char |-> 10, end_char |-> 13],
               [label_ |-> "LOC", start_char |-> 17, end_char |-> 22],
               [label_ |-> "PERSON", start_char |-> 24, end_char |-> 29],
               [label_ |-> "PERSON", start_char |-> 34, end_char |-> 37]>>,
     sents |-> <<[start_char |-> 0, end_char |-> 23],
                [start_char |-> 24, end_char |-> 44]>>]

\* Two surviving entities, met in descending order of entity_id, and an ORG.
PageD2 ==
    [doc_id |-> <<"D", "1">>,
     page_id |-> <<"D", "1", "#", "p", "0", "2">>,
     page_number |-> 2,
     source_uri |-> <<"f", "i", "l", "e", ":", "/", "/", "d", "1", ".", "p", "d", "f">>,
     text |->
       <<"b", "o", "b", " ", " ", "L", "E", "E", " ", "|", " ", "A", "L", "I", "C", "E", ".", " ", "A", "c", "m", "e", ".">>,
     ents |-> <<[label_ |-> "PERSON", start_char |-> 0, end_char |-> 8],
               [label_ |-> "PERSON", start_char |-> 11, end_char |-> 16],
               [label_ |-> "ORG", start_char |-> 18, end_char |-> 22]>>,
     sents |-> <<[start_char |-> 0, end_char |-> 17],
                [start_char |-> 18, end_char |-> 23]>>]

\* No mention survives the filter.
PageD3 ==
    [doc_id |-> <<"D", "1">>,
     page_id |-> <<"D", "1", "#", "p", "0", "3">>,
     page_number |-> 3,
     source_uri |-> <<"f", "i", "l", "e", ":", "/", "/", "d", "1", ".", "p", "d", "f">>,
     text |->
       <<"A", "c", "m", "e", " ", "i", "n", " ", "R", "o", "m", "e", ".">>,
     ents |-> <<[label_ |-> "ORG", start_char |-> 0, end_char |-> 4],
               [label_ |-> "GPE", start_char |-> 8, end_char |-> 12]>>,
     sents |-> <<[start_char |-> 0, end_char |-> 13]>>]

\* The same surface text under two labels.
PageD4 ==
    [doc_id |-> <<"D", "2">>,
     page_id |-> <<"D", "2", "#", "p", "0", "1">>,
     page_number |-> 1,
     source_uri |-> <<"f", "i", "l", "e", ":", "/", "/", "d", "2", ".", "p", "d", "f">>,
     text |->
       <<"P", "a", "r", "i", "s", " ", "m", "e", "t", " ", "P", "a", "r", "i", "s", ".">>,
     ents |-> <<[label_ |-> "PERSON", start_char |-> 0, end_char |-> 5],
               [label_ |-> "LOC", start_char |-> 10, end_char |-> 15]>>,
     sents |-> <<[start_char |-> 0, end_char |-> 16]>>]

\* The two entities of PageD2 in other spellings; page_id, page_number and
\* source_uri are missing.
PageD5 ==
    [doc_id |-> <<"D", "3">>,
     text |->
       <<"A", "l", "i", "c", "e", ",", " ", "B", "o", "b", " ", "L", "e", "e", " ", "l", "e", "f", "t", ".">>,
     ents |-> <<[label_ |-> "PERSON", start_char |-> 0, end_char |-> 5],
               [label_ |-> "PERSON", start_char |-> 7, end_char |-> 14]>>,
     sents |-> <<[start_char |-> 0, end_char |-> 20]>>]

\* One surviving entity, mentioned twice in two spellings and two sentences.
PageD6 ==
    [doc_id |-> <<"D", "3">>,
     page_id |-> <<"D", "3", "#", "p", "0", "2">>,
     page_number |-> 2,
     text |->
       <<"P", "a", "r", "i", "s", ".", " ", "P", "A", "R", "I", "S", "!">>,
     ents |-> <<[label_ |-> "LOC", start_char |-> 0, end_char |-> 5],
               [label_ |-> "LOC", start_char |-> 7, end_char |-> 12]>>,
     sents |-> <<[start_char |-> 0, end_char |-> 6],
                [start_char |-> 7, end_char |-> 13]>>]

Catalog == {PageD1, PageD2, PageD3, PageD4, PageD5, PageD6}

RECURSIVE SeqsUpTo(_, _)
SeqsUpTo(S, n) ==
    IF n = 0 THEN {<<>>}
    ELSE LET shorter == SeqsUpTo(S, n - 1)
         IN shorter \cup {Append(s, x) : s \in shorter, x \in S}

----------------------------------------------------------------------------
\* main()

Init ==
    /\ env \in SUBSET EnvVars
    /\ pages \in SeqsUpTo(Catalog, MaxPages)
    /\ pc = "start"
    /\ i = 0
    /\ cidx = 0
    /\ unique = <<>>
    /\ batches = <<>>
    /\ pairs = <<>>
    /\ nodes = <<>>
    /\ edges = <<>>
    /\ writes = <<>>
    /\ out = <<>>
    /\ norm = "idle"
    /\ enc = "idle"

\* Variant: any one of the three variables is enough (or instead of and).
CheckEnv_any ==
    /\ pc = "start"
    /\ IF env # {}
       THEN pc' = "constraints" /\ cidx' = 1 /\ out' = out
       ELSE /\ pc' = "config_error" /\ cidx' = cidx
            /\ out' = Append(out, [kind |-> "SystemExit", page |-> 0,
                       text |-> "Missing Neo4j env vars. Set NEO4J_URI, NEO4J_USER, NEO4J_PASSWORD."])
    /\ UNCHANGED <<env, pages, i, unique, batches, pairs, nodes, edges, writes,
                   norm, enc>>

\* if not (NEO4J_URI and NEO4J_USER and NEO4J_PASSWORD): raise SystemExit
CheckEnv ==
    /\ pc = "start"
    /\ IF env = EnvVars
       THEN pc' = "constraints" /\ cidx' = 1 /\ out' = out
       ELSE /\ pc' = "config_error" /\ cidx' = cidx
            /\ out' = Append(out, [kind |-> "SystemExit", page |-> 0,
                       text |-> "Missing Neo4j env vars. Set NEO4J_URI, NEO4J_USER, NEO4J_PASSWORD."])
    /\ UNCHANGED <<env, pages, i, unique, batches, pairs, nodes, edges, writes,
                   norm, enc>>

\* for c in CONSTRAINTS: session.run(c)
DeclareConstraint ==
    /\ pc = "constraints"
    /\ writes' = Append(writes, [op |-> "constraint", page |-> 0,
                                 arg |-> CONSTRAINTS[cidx], ok |-> TRUE])
    /\ IF cidx < Len(CONSTRAINTS)
       THEN cidx' = cidx + 1 /\ pc' = pc /\ i' = i
       ELSE cidx' = cidx /\ pc' = "nlp" /\ i' = 1
    /\ UNCHANGED <<env, pages, unique, batches, pairs, nodes, edges, norm, enc, out>>

\* Variant: a page without entities ends the loop (break instead of continue).
ExtractPage_stop ==
    /\ pc = "nlp"
    /\ i <= Len(pages)
    /\ LET d == UniqueOf(pages[i])
       IN /\ unique' = d
          /\ IF d = <<>>
             THEN /\ i' = Len(pages) + 1
                  /\ pc' = "nlp"
                  /\ batches' = <<>>
             ELSE /\ i' = i
                  /\ pc' = "upsert_entities"
                  /\ batches' = GroupByLabel(d, <<>>)
    /\ UNCHANGED <<env, pages, cidx, pairs, nodes, edges, writes, norm, enc, out>>

\* doc = nlp(page["text"]), the loop over doc.ents and the grouping by label;
\* a page without entities is skipped.
ExtractPage ==
    /\ pc = "nlp"
    /\ i <= Len(pages)
    /\ LET d == UniqueOf(pages[i])
       IN /\ unique' = d
          /\ IF d = <<>>
             THEN /\ i' = i + 1
                  /\ pc' = "nlp"
                  /\ batches' = <<>>
             ELSE /\ i' = i
                  /\ pc' = "upsert_entities"
                  /\ batches' = GroupByLabel(d, <<>>)
    /\ UNCHANGED <<env, pages, cidx, pairs, nodes, edges, writes, norm, enc, out>>

\* session.run(UPSERT_ENTITY.format(LABEL=label), entities=label_entities) for
\* the next label of by_label.
UpsertEntities ==
    /\ pc = "upsert_entities"
    /\ LET b == Head(batches)
       IN /\ nodes' = UpsertEntity(nodes, b.label, b.entities)
          /\ writes' = Append(writes, [op |-> "entity", page |-> i,
                                       arg |-> b.label, ok |-> TRUE])
    /\ batches' = Tail(batches)
    /\ pc' = IF Tail(batches) = <<>> THEN "pairs" ELSE pc
    /\ UNCHANGED <<env, pages, i, cidx, unique, pairs, edges, norm, enc, out>>

\* eids = sorted(unique.keys()); pairs = [... combinations(eids, 2)]
DerivePairs ==
    /\ pc = "pairs"
    /\ pairs' = PairsOf(pages[i], unique)
    /\ pc' = "upsert_edges"
    /\ UNCHANGED <<env, pages, i, cidx, unique, batches, nodes, edges, writes,
                   norm, enc, out>>

\* if pairs: session.run(UPSERT_EDGE, pairs=pairs); then the next page.
UpsertEdges ==
    /\ pc = "upsert_edges"
    /\ IF pairs # <<>>
       THEN /\ edges' = UpsertEdge(nodes, edges, pairs)
            /\ writes' = Append(writes, [op |-> "edge", page |-> i,
                                         arg |-> "RELATES_TO", ok |-> TRUE])
       ELSE UNCHANGED <<edges, writes>>
    /\ i' = i + 1
    /\ pc' = "nlp"
    /\ UNCHANGED <<env, pages, cidx, unique, batches, pairs, nodes, norm, enc, out>>

\* Variant: the exception of a page's write is caught and the loop goes on
\* with the next page (except: continue).
StoreFails_swallow ==
    /\ \/ pc = "constraints"
       \/ pc = "upsert_entities"
       \/ pc = "upsert_edges" /\ pairs # <<>>
    /\ writes' = Append(writes,
          [op |-> IF pc = "constraints" THEN "constraint"
                  ELSE IF pc = "upsert_entities" THEN "entity" ELSE "edge",
           page |-> i,
           arg |-> IF pc = "constraints" THEN CONSTRAINTS[cidx]
                   ELSE IF pc = "upsert_entities" THEN Head(batches).label
                   ELSE "RELATES_TO",
           ok |-> FALSE])
    /\ IF pc = "constraints"
       THEN pc' = "failed" /\ i' = i
       ELSE pc' = "nlp" /\ i' = i + 1
    /\ out' = Append(out, [kind |-> "Traceback", page |-> 0,
                           text |-> "exception of the neo4j driver"])
    /\ UNCHANGED <<env, pages, cidx, unique, batches, pairs, nodes, edges,
                   norm, enc>>

\* A session.run raises: the exception leaves main() through the finally, and
\* the interpreter prints its traceback, which names no page.
StoreFails ==
    /\ \/ pc = "constraints"
       \/ pc = "upsert_entities"
       \/ pc = "upsert_edges" /\ pairs # <<>>
    /\ writes' = Append(writes,
          [op |-> IF pc = "constraints" THEN "constraint"
                  ELSE IF pc = "upsert_entities" THEN "entity" ELSE "edge",
           page |-> i,
           arg |-> IF pc = "constraints" THEN CONSTRAINTS[cidx]
                   ELSE IF pc = "upsert_entities" THEN Head(batches).label
                   ELSE "RELATES_TO",
           ok |-> FALSE])
    /\ pc' = "failed"
    /\ out' = Append(out, [kind |-> "Traceback", page |-> 0,
                           text |-> "exception of the neo4j driver"])
    /\ UNCHANGED <<env, pages, i, cidx, unique, batches, pairs, nodes, edges,
                   norm, enc>>

\* nlp(page["text"]) raises: the traceback names no page.
NerFails ==
    /\ pc = "nlp"
    /\ i <= Len(pages)
    /\ pc' = "failed"
    /\ out' = Append(out, [kind |-> "Traceback", page |-> 0,
                           text |-> "exception of the spaCy pipeline"])
    /\ UNCHANGED <<env, pages, i, cidx, unique, batches, pairs, nodes, edges,
                   writes, norm, enc>>

\* The loop is over: the success messages are printed.
Finish ==
    /\ pc = "nlp"
    /\ i > Len(pages)
    /\ pc' = "done"
    /\ out' = out \o
          <<[kind |-> "print", page |-> 0,
             text |-> "Inserted Person, Organization, Location nodes + RELATES_TO edges into Neo4j."],
            [kind |-> "print", page |-> 0,
             text |-> "Node labels: Person | Organization | Location"],
            [kind |-> "print", page |-> 0,
             text |-> "Try in Neo4j Browser: MATCH (a)-[r:RELATES_TO]->(b) RETURN a, r, b LIMIT 200;"]>>
    /\ UNCHANGED <<env, pages, i, cidx, unique, batches, pairs, nodes, edges,
                   writes, norm, enc>>

Next == \/ CheckEnv \/ DeclareConstraint \/ ExtractPage \/ UpsertEntities
        \/ DerivePairs \/ UpsertEdges \/ StoreFails \/ NerFails \/ Finish

Spec == Init /\ [][Next]_vars

----------------------------------------------------------------------------
\* The pipeline is not running: the state of the variables of main() while a
\* pure function is exercised on its own.

Idle ==
    /\ env = {}
    /\ pages = <<>>
    /\ pc = "idle"
    /\ i = 0
    /\ cidx = 0
    /\ unique = <<>>
    /\ batches = <<>>
    /\ pairs = <<>>
    /\ nodes = <<>>
    /\ edges = <<>>
    /\ writes = <<>>
    /\ out = <<>>

----------------------------------------------------------------------------
\* make_entity_id on texts that vary only in whitespace and letter case.

IdAlphabet == {"a", "A", "b", " ", "\t", CapSigma, SmallSigma}

Spaces == {" ", "\t", "\n"}

RECURSIVE StringsUpTo(_, _)
StringsUpTo(alphabet, n) ==
    IF n = 0 THEN {<<>>}
    ELSE LET shorter == StringsUpTo(alphabet, n - 1)
         IN shorter \cup {Append(s, c) : s \in shorter, c \in alphabet}

\* The other case of a cased character (str.swapcase on one character).
SwapCase(c) ==
    IF c = CapSigma THEN SmallSigma
    ELSE IF c \in {SmallSigma, FinalSigma} THEN CapSigma
    ELSE IF IsUpperAscii(c) THEN Chr(Ord(c) + 32)
    ELSE IF IsLowerAscii(c) THEN Chr(Ord(c) - 32)
    ELSE c

InsertAt(s, k, c) == SubSeq(s, 1, k) \o <<c>> \o SubSeq(s, k + 1, Len(s))

RemoveAt(s, k) == SubSeq(s, 1, k - 1) \o SubSeq(s, k + 1, Len(s))

InitId ==
    /\ Idle
    /\ enc = "idle"
    /\ \E ty \in {"PERSON", "LOC"}, t \in StringsUpTo(IdAlphabet, MaxLen) :
          norm = [ty |-> ty, orig |-> t, text |-> t,
                  eid0 |-> make_entity_id(ty, t), eid |-> make_entity_id(ty, t)]

\* The text is replaced by a variant and its identity is computed again.
Revise(t) ==
    /\ Len(t) <= MaxLen + 1
    /\ norm' = [norm EXCEPT !.text = t, !.eid = make_entity_id(norm.ty, t)]
    /\ UNCHANGED <<pipeVars, enc>>

PadLeft == \E c \in Spaces : Revise(<<c>> \o norm.text)

PadRight == \E c \in Spaces : Revise(Append(norm.text, c))

TrimLeft == /\ norm.text # <<>> /\ IsSpace(Head(norm.text))
            /\ Revise(Tail(norm.text))

TrimRight == /\ norm.text # <<>> /\ IsSpace(norm.text[Len(norm.text)])
             /\ Revise(SubSeq(norm.text, 1, Len(norm.text) - 1))

\* An internal whitespace run gets one character longer.
GrowRun ==
    \E k \in 1..Len(norm.text), c \in Spaces :
        /\ IsSpace(norm.text[k])
        /\ Revise(InsertAt(norm.text, k, c))

\* An internal whitespace run of two or more gets one character shorter.
ShrinkRun ==
    \E k \in 1..(Len(norm.text) - 1) :
        /\ IsSpace(norm.text[k]) /\ IsSpace(norm.text[k + 1])
        /\ Revise(RemoveAt(norm.text, k))

\* A whitespace character is replaced by one of another kind.
ChangeSpace ==
    \E k \in 1..Len(norm.text), c \in Spaces :
        /\ IsSpace(norm.text[k]) /\ c # norm.text[k]
        /\ Revise([norm.text EXCEPT ![k] = c])

\* One letter changes case.
ChangeCase ==
    \E k \in 1..Len(norm.text) :
        /\ IsCased(norm.text[k])
        /\ Revise([norm.text EXCEPT ![k] = SwapCase(norm.text[k])])

NextId == \/ PadLeft \/ PadRight \/ TrimLeft \/ TrimRight
          \/ GrowRun \/ ShrinkRun \/ ChangeSpace \/ ChangeCase

SpecId == InitId /\ [][NextId]_vars

\* C4: every text reached from a text by changes of leading, trailing and
\* internal whitespace and of letter case has the entity_id of that text.
IdentityStable == norm.eid = norm.eid0

----------------------------------------------------------------------------
\* make_ref and the decoding the specification prescribes for it.

\* The first position at which sep occurs in s, or 0.
FindFirst(s, sep) ==
    LET at == {k \in 1..(Len(s) - Len(sep) + 1) :
                  SubSeq(s, k, k + Len(sep) - 1) = sep}
    IN IF at = {} THEN 0 ELSE CHOOSE k \in at : \A h \in at : k <= h

\* s.split(sep, 1)
SplitOnce(s, sep) ==
    LET k == FindFirst(s, sep)
    IN IF k = 0 THEN <<s>>
       ELSE <<SubSeq(s, 1, k - 1), SubSeq(s, k + Len(sep), Len(s))>>

\* s.split(sep)
RECURSIVE SplitAll(_, _)
SplitAll(s, sep) ==
    LET k == FindFirst(s, sep)
    IN IF k = 0 THEN <<s>>
       ELSE <<SubSeq(s, 1, k - 1)>> \o SplitAll(SubSeq(s, k + Len(sep), Len(s)), sep)

\* Split once at the first REF_SEP, then split the metadata on the bar.
decode_ref(ref) ==
    LET parts == SplitOnce(ref, REF_SEP)
    IN [fields |-> SplitAll(parts[1], <<"|">>),
        snippet |-> IF Len(parts) = 2 THEN parts[2] ELSE <<>>]

MetaKeys == {"doc_id", "page_id", "page_number", "source_uri"}

\* The pages of the codec: each field is missing, or has one of two values
\* without a bar.
CodecPages ==
    {[k \in present |->
         CASE k = "doc_id" -> d
           [] k = "page_id" -> p
           [] k = "page_number" -> n
           [] k = "source_uri" -> u] :
        present \in SUBSET MetaKeys,
        d \in {<<>>, <<"D">>},
        p \in {<<>>, <<"D", "#", "1">>},
        n \in {1, 12},
        u \in {<<>>, <<"f", ":", "/", "d">>}}

InitRef ==
    /\ Idle
    /\ norm = "idle"
    /\ \E page \in CodecPages, snippet \in StringsUpTo({"|", "s"}, MaxSnippet) :
          enc = [phase |-> "new", page |-> page, snippet |-> snippet,
                 ref |-> <<>>, dec |-> [fields |-> <<>>, snippet |-> <<>>]]

EncodeRef ==
    /\ enc.phase = "new"
    /\ enc' = [enc EXCEPT !.phase = "encoded", !.ref = make_ref(enc.page, enc.snippet)]
    /\ UNCHANGED <<pipeVars, norm>>

DecodeRef ==
    /\ enc.phase = "encoded"
    /\ enc' = [enc EXCEPT !.phase = "decoded", !.dec = decode_ref(enc.ref)]
    /\ UNCHANGED <<pipeVars, norm>>

NextRef == EncodeRef \/ DecodeRef

SpecRef == InitRef /\ [][NextRef]_vars

\* The four fields as make_ref renders them.
Rendered(page) ==
    <<Field(page, "doc_id"), Field(page, "page_id"), Field(page, "page_number"),
      Field(page, "source_uri")>>

RoundTrip ==
    /\ enc.dec.fields = Rendered(enc.page)
    /\ enc.dec.snippet = enc.snippet

\* C6: whatever fields are missing, the decoding recovers the four field
\* values as rendered, in order, and the snippet, bars in the snippet included.
RefRoundTripAnyPage == enc.phase = "decoded" => RoundTrip

\* The part of the round trip that holds: when source_uri is not empty and
\* page_id and page_number are not both empty, the decoding recovers the
\* fields and the snippet.
RefRoundTrip ==
    (/\ enc.phase = "decoded"
     /\ Field(enc.page, "source_uri") # <<>>
     /\ ~(Field(enc.page, "page_id") = <<>> /\ Field(enc.page, "page_number") = <<>>))
        => RoundTrip

BarSnippetDecoded ==
    /\ enc.phase = "decoded"
    /\ "doc_id" \notin DOMAIN enc.page
    /\ "page_number" \notin DOMAIN enc.page
    /\ Field(enc.page, "source_uri") # <<>>
    /\ Field(enc.page, "page_id") # <<>>
    /\ enc.snippet = <<"|", "|", "s">>
    /\ enc.dec.snippet = enc.snippet

----------------------------------------------------------------------------
\* Vocabulary of the properties.

NodeIds == {nodes[k].entity_id : k \in 1..Len(nodes)}

\* The mentions of a page whose label is in the list.
MentionsUnder(page, list) ==
    {k \in 1..Len(page.ents) : page.ents[k].label_ \in list}

\* The identities of the mentions of a page whose label is in the list.
IdsUnder(page, list) ==
    {make_entity_id(page.ents[k].label_, EntText(page, page.ents[k])) :
        k \in MentionsUnder(page, list)}

\* The identities of the mentions of a page that carry PERSON or LOC.
PageIds(page) == IdsUnder(page, {"PERSON", "LOC"})

\* The refs and the names those mentions can give a node.
PageRefs(page) ==
    {make_ref(page, get_snippet_for_entity(page, page.ents[k])) :
        k \in MentionsUnder(page, {"PERSON", "LOC"})}

PageNames(page) ==
    {norm_text(EntText(page, page.ents[k])) :
        k \in MentionsUnder(page, {"PERSON", "LOC"})}

\* main() is between the extraction of page i and the end of its writes.
InPage == pc \in {"upsert_entities", "pairs", "upsert_edges"}

\* Page i was applied in full earlier in the run.
Rerun == InPage /\ \E j \in 1..(i - 1) : pages[j] = pages[i]

\* Page i is the page applied just before it.
ImmediateRerun == InPage /\ i > 1 /\ pages[i - 1] = pages[i]

\* The applications, among the first n of the run, of a page on which both
\* x and y survive.
Contributing(x, y, n) == {j \in 1..n : {x, y} \subseteq PageIds(pages[j])}

\* The entity_ids an edge joins.
SrcId(e) == nodes[e.src].entity_id
DstId(e) == nodes[e.dst].entity_id

\* The edges that join x and y, in either direction.
Between(x, y) ==
    {k \in 1..Len(edges) :
        \/ SrcId(edges[k]) = x /\ DstId(edges[k]) = y
        \/ SrcId(edges[k]) = y /\ DstId(edges[k]) = x}

\* The input is k copies of one page.
CopiesOf(page) == pages # <<>> /\ \A k \in 1..Len(pages) : pages[k] = page

----------------------------------------------------------------------------
\* C1 as stated: the scenario page alone yields the entities person:alice,
\* person:bob and location:paris, 3 edges and one ref per node.
ScenarioLowercaseIds ==
    (pc = "done" /\ pages = <<PageD1>>) =>
        /\ NodeIds = {<<"p", "e", "r", "s", "o", "n", ":", "a", "l", "i", "c", "e">>,
                      <<"p", "e", "r", "s", "o", "n", ":", "b", "o", "b">>,
                      <<"l", "o", "c", "a", "t", "i", "o", "n", ":", "p", "a", "r", "i", "s">>}
        /\ Len(nodes) = 3
        /\ Len(edges) = 3
        /\ \A k \in 1..Len(nodes) : Len(nodes[k].refs) = 1

\* C1 amended: the scenario page alone yields exactly the three entities
\* PERSON:alice, PERSON:bob and LOC:paris (the spaCy label, as it is, before
\* the colon), exactly 3 edges, and a refs list of length 1 on every node.
ScenarioYield ==
    (pc = "done" /\ pages = <<PageD1>>) =>
        /\ NodeIds = {<<"P", "E", "R", "S", "O", "N", ":", "a", "l", "i", "c", "e">>,
                      <<"P", "E", "R", "S", "O", "N", ":", "b", "o", "b">>,
                      <<"L", "O", "C", ":", "p", "a", "r", "i", "s">>}
        /\ Len(nodes) = 3
        /\ Len(edges) = 3
        /\ \A k \in 1..Len(nodes) : Len(nodes[k].refs) = 1

ScenarioApplied == pc = "done" /\ pages = <<PageD1>> /\ Len(nodes) = 3

\* C2: when the input is k copies of one page with exactly two surviving
\* entities, the finished run leaves exactly one edge, it joins the two
\* entities, and its count is k.
SingleEdgePerPair ==
    \A page \in Catalog :
        (pc = "done" /\ CopiesOf(page) /\ Cardinality(PageIds(page)) = 2) =>
            /\ Len(edges) = 1
            /\ {SrcId(edges[1]), DstId(edges[1])} = PageIds(page)
            /\ edges[1].count = Len(pages)

TwoEntityPageTwice ==
    /\ pc = "done"
    /\ pages = <<PageD2, PageD2>>
    /\ Len(edges) = 1
    /\ edges[1].count = 2

\* C3: any two distinct entity_ids are joined by at most one edge, counting
\* both directions; every edge goes from the smaller entity_id to the larger
\* one; no edge joins a node to itself.
CanonicalEdges ==
    /\ \A x \in NodeIds, y \in NodeIds :
          x # y => Cardinality(Between(x, y)) <= 1
    /\ \A k \in 1..Len(edges) :
          /\ StrLess(SrcId(edges[k]), DstId(edges[k]))
          /\ edges[k].src # edges[k].dst

PairsRecurred ==
    /\ Len(edges) >= 3
    /\ \E k \in 1..Len(edges) : edges[k].count >= 2
    /\ \E k \in 1..Len(pages) : pages[k] = PageD2

\* C5: the batch built for a page with N surviving entity_ids has N*(N-1)/2
\* pairs, each with a_id < b_id, every two distinct ids of the page are in
\* it, none twice; it is empty for N <= 1, and an edge upsert is issued only
\* for pages with N >= 2.
PairBatch ==
    /\ pc = "upsert_edges" =>
          LET ids == PageIds(pages[i])
              N == Cardinality(ids)
          IN /\ 2 * Len(pairs) = N * (N - 1)
             /\ \A k \in 1..Len(pairs) : StrLess(pairs[k].a_id, pairs[k].b_id)
             /\ \A x \in ids, y \in ids :
                   StrLess(x, y) =>
                      \E k \in 1..Len(pairs) : pairs[k].a_id = x /\ pairs[k].b_id = y
             /\ \A k \in 1..Len(pairs), h \in 1..Len(pairs) :
                   (pairs[k].a_id = pairs[h].a_id /\ pairs[k].b_id = pairs[h].b_id)
                      => k = h
             /\ N <= 1 => pairs = <<>>
    /\ \A w \in 1..Len(writes) :
          writes[w].op = "edge" => Cardinality(PageIds(pages[writes[w].page])) >= 2

ThreePairsBuilt ==
    /\ pc = "upsert_edges"
    /\ i = 3
    /\ pages = <<PageD3, PageD6, PageD1>>
    /\ Len(pairs) = 3

\* C7: while the entity batches of a page are applied right after the same
\* page was applied, no node appears or disappears, no label, entity_id or
\* name changes and no edge changes; a refs list either stays or gets the
\* ref of its entity in the batch appended, and after a successful batch
\* every node of the batch has got it.
EntityReapply ==
    [][(ImmediateRerun /\ pc = "upsert_entities") =>
          /\ Len(nodes') = Len(nodes)
          /\ edges' = edges
          /\ \A k \in 1..Len(nodes) :
                /\ nodes'[k].label = nodes[k].label
                /\ nodes'[k].entity_id = nodes[k].entity_id
                /\ nodes'[k].name = nodes[k].name
                /\ LET mine == {h \in 1..Len(Head(batches).entities) :
                                   /\ Head(batches).label = nodes[k].label
                                   /\ Head(batches).entities[h].entity_id
                                         = nodes[k].entity_id}
                   IN IF mine # {} /\ pc' # "failed"
                      THEN \E h \in mine :
                              nodes'[k].refs
                                 = Append(nodes[k].refs, Head(batches).entities[h].ref)
                      ELSE nodes'[k].refs = nodes[k].refs]_vars

EntitiesReapplied ==
    /\ pc = "pairs"
    /\ i = 2
    /\ pages = <<PageD1, PageD1>>
    /\ Len(nodes) = 3
    /\ \A k \in 1..Len(nodes) : Len(nodes[k].refs) = 2

\* Everything in the store but the refs lists.
WithoutRefs ==
    <<[k \in 1..Len(nodes) |->
          <<nodes[k].label, nodes[k].entity_id, nodes[k].name>>],
      [k \in 1..Len(edges) |->
          <<edges[k].src, edges[k].dst, edges[k].count>>]>>

\* C8 as stated: while a page that was applied in full before is applied
\* again, nothing in the store but the refs lists changes.
RerunChangesOnlyRefs == [][Rerun => WithoutRefs' = WithoutRefs]_vars

\* C8 amended: while a page that was applied in full before is applied again,
\* no node and no edge is created, and no label, entity_id or edge endpoint
\* changes; the count of an edge grows by exactly 1 when the page's edge batch
\* is applied and both its ends are entities of the page, and stays otherwise;
\* a name changes only on an entity of the page, and not at all when the page
\* was also the page applied just before.
RerunEffect ==
    [][Rerun =>
          /\ Len(nodes') = Len(nodes)
          /\ \A k \in 1..Len(nodes) :
                /\ nodes'[k].label = nodes[k].label
                /\ nodes'[k].entity_id = nodes[k].entity_id
                /\ \/ nodes'[k].name = nodes[k].name
                   \/ /\ ~ImmediateRerun
                      /\ nodes[k].entity_id \in PageIds(pages[i])
                      /\ nodes'[k].name \in PageNames(pages[i])
          /\ Len(edges') = Len(edges)
          /\ \A k \in 1..Len(edges) :
                /\ edges'[k].src = edges[k].src
                /\ edges'[k].dst = edges[k].dst
                /\ edges'[k].count =
                      IF /\ pc = "upsert_edges" /\ pc' # "failed"
                         /\ {SrcId(edges[k]), DstId(edges[k])} \subseteq PageIds(pages[i])
                      THEN edges[k].count + 1
                      ELSE edges[k].count]_vars

PageRerunAfterAnother ==
    /\ pc = "done"
    /\ pages = <<PageD2, PageD5, PageD2>>
    /\ Len(edges) = 1
    /\ edges[1].count = 3
    /\ Len(nodes) = 2

\* What C9 says of an allow-list: during a page, unique has exactly the
\* identities of the page's mentions with a listed label, and each pair joins
\* two of them; every node has the identity of such a mention of a page begun
\* so far, and every identity of such a mention of a finished page has a node.
FilteredBy(list) ==
    /\ InPage =>
          /\ {unique[k].entity_id : k \in 1..Len(unique)} = IdsUnder(pages[i], list)
          /\ pc = "upsert_edges" =>
                \A k \in 1..Len(pairs) :
                    {pairs[k].a_id, pairs[k].b_id} \subseteq IdsUnder(pages[i], list)
    /\ \A k \in 1..Len(nodes) :
          \E j \in 1..Len(pages) :
              j <= i /\ nodes[k].entity_id \in IdsUnder(pages[j], list)
    /\ \A j \in 1..Len(pages) :
          j < i => IdsUnder(pages[j], list) \subseteq NodeIds

\* C9 as stated: the allow-list is {PERSON, LOCATION}.
FilterPersonLocation == FilteredBy({"PERSON", "LOCATION"})

\* C9 amended: the allow-list is {PERSON, LOC}. A mention with another label
\* (ORG, GPE) gives no identity to unique or to a pair, no node, no name and no
\* ref; every PERSON or LOC mention has its identity in unique and, once the
\* page is finished, in a node; a finished page with such a mention has had
\* its entity write, so the dropped mentions did not stop it.
FilterPersonLoc ==
    /\ FilteredBy({"PERSON", "LOC"})
    /\ InPage =>
          \A k \in 1..Len(unique) :
              /\ unique[k].ref \in PageRefs(pages[i])
              /\ unique[k].name \in PageNames(pages[i])
    /\ \A k \in 1..Len(nodes) :
          /\ \E j \in 1..Len(pages) : j <= i /\ nodes[k].name \in PageNames(pages[j])
          /\ \A r \in 1..Len(nodes[k].refs) :
                \E j \in 1..Len(pages) :
                    j <= i /\ nodes[k].refs[r] \in PageRefs(pages[j])
    /\ \A j \in 1..Len(pages) :
          (j < i /\ PageIds(pages[j]) # {}) =>
              \E w \in 1..Len(writes) :
                  writes[w].op = "entity" /\ writes[w].page = j /\ writes[w].ok

MentionsDropped ==
    /\ pc = "done"
    /\ pages = <<PageD2, PageD3>>
    /\ Len(nodes) = 2
    /\ Len(edges) = 1

\* C10 as stated: the count of an edge is the number of distinct pages, among
\* the pages applied, on which both its ends survive, and never decreases.
CountIsDistinctPages ==
    /\ [](\A k \in 1..Len(edges) :
             edges[k].count =
                Cardinality({pages[j] :
                    j \in Contributing(SrcId(edges[k]), DstId(edges[k]), i - 1)}))
    /\ [][\A k \in 1..Len(edges) :
             Len(edges') >= k /\ edges'[k].count >= edges[k].count]_vars

\* C10 amended: the count of an edge is the number of applications of pages
\* on which both its ends survive, a page applied twice counting twice, and
\* never decreases.
CountIsApplications ==
    /\ [](\A k \in 1..Len(edges) :
             edges[k].count =
                Cardinality(Contributing(SrcId(edges[k]), DstId(edges[k]), i - 1)))
    /\ [][\A k \in 1..Len(edges) :
             Len(edges') >= k /\ edges'[k].count >= edges[k].count]_vars

PairOnTwoPagesThreeTimes ==
    /\ pc = "done"
    /\ pages = <<PageD5, PageD2, PageD5>>
    /\ Len(edges) = 1
    /\ edges[1].count = 3

----------------------------------------------------------------------------
\* The store that the complete application of the first n pages makes, as a
\* composition of the statements, for comparison with the run.

BatchesOf(page) == GroupByLabel(UniqueOf(page), <<>>)

\* The first m entity batches of a page, applied in order.
RECURSIVE ApplyBatches(_, _, _)
ApplyBatches(ns, bs, m) ==
    IF m = 0 \/ bs = <<>> THEN ns
    ELSE ApplyBatches(UpsertEntity(ns, Head(bs).label, Head(bs).entities),
                      Tail(bs), m - 1)

RECURSIVE NodesAfter(_)
NodesAfter(n) ==
    IF n = 0 THEN <<>>
    ELSE ApplyBatches(NodesAfter(n - 1), BatchesOf(pages[n]),
                      Len(BatchesOf(pages[n])))

RECURSIVE EdgesAfter(_)
EdgesAfter(n) ==
    IF n = 0 THEN <<>>
    ELSE UpsertEdge(NodesAfter(n), EdgesAfter(n - 1),
                    PairsOf(pages[n], UniqueOf(pages[n])))

LastWrite == writes[Len(writes)]

\* The entity batches of page p that were written.
EntityWritesOf(p) ==
    {w \in 1..Len(writes) :
        writes[w].op = "entity" /\ writes[w].page = p /\ writes[w].ok}

\* C11: a failed write is the last write of the run and ends it: nothing is
\* written after it, for its page or a later one, it is not tried again, the
\* run ends with the traceback and without the success messages, and the
\* store holds the pages before the failing one in full, plus the entity
\* batches of the failing page written before the failure.
FailFast ==
    /\ [](/\ \A w \in 1..Len(writes) :
                /\ writes[w].page <= i
                /\ ~writes[w].ok => (w = Len(writes) /\ pc = "failed")
          /\ pc = "failed" =>
                /\ out # <<>>
                /\ out[Len(out)].kind = "Traceback"
                /\ \A m \in 1..Len(out) : out[m].kind # "print"
          /\ (pc = "failed" /\ writes # <<>> /\ ~LastWrite.ok /\ LastWrite.page >= 1) =>
                /\ LastWrite.page = i
                /\ nodes = ApplyBatches(NodesAfter(i - 1), BatchesOf(pages[i]),
                                        Cardinality(EntityWritesOf(i)))
                /\ edges = EdgesAfter(i - 1))
    /\ [][pc # "failed"]_vars

SecondBatchFailed ==
    /\ pc = "failed"
    /\ pages = <<PageD2, PageD1>>
    /\ i = 2
    /\ Len(writes) = 6
    /\ LastWrite = [op |-> "entity", page |-> 2, arg |-> "Location", ok |-> FALSE]
    /\ Len(nodes) = 3
    /\ Len(edges) = 1

\* C12: when the run ends because the processing of a page failed, a message
\* of the run names that page.
FailureNamesPage ==
    (pc = "failed" /\ i \in 1..Len(pages)) =>
        \E m \in 1..Len(out) : out[m].page = i

\* C13: while one of NEO4J_URI, NEO4J_USER, NEO4J_PASSWORD is not set, the run
\* gets no further than the SystemExit of the configuration check: no page is
\* begun, nothing is written and the store is empty; the run stops there.
ConfigFatal ==
    /\ [](env # EnvVars =>
             /\ pc \in {"start", "config_error"}
             /\ i = 0
             /\ writes = <<>>
             /\ nodes = <<>>
             /\ edges = <<>>
             /\ pc = "config_error" =>
                   (Len(out) = 1 /\ out[1].kind = "SystemExit"))
    /\ [][pc # "config_error"]_vars

ConfigErrorRaised ==
    /\ pc = "config_error"
    /\ env = {"NEO4J_URI", "NEO4J_USER"}
    /\ pages = <<PageD1>>
    /\ Len(out) = 1

----------------------------------------------------------------------------
\* The first mention of an identity on a page, in the order of doc.ents.
FirstMention(page, eid) ==
    LET of == {k \in MentionsUnder(page, {"PERSON", "LOC"}) :
                  make_entity_id(page.ents[k].label_, EntText(page, page.ents[k])) = eid}
    IN page.ents[CHOOSE k \in of : \A h \in of : k <= h]

\* The applications, among the first n of the run, of a page that mentions x.
Mentioning(x, n) == {j \in 1..n : x \in PageIds(pages[j])}

\* The number of pages whose entity batches are all written.
EntitiesApplied ==
    IF pc \in {"pairs", "upsert_edges"} THEN i
    ELSE IF i = 0 THEN 0 ELSE i - 1

\* No page is half written.
BetweenBatches == pc \in {"nlp", "done", "pairs", "upsert_edges"}

\* C14: during a page, unique has one record per identity of the page's
\* allowed mentions, with the label, the name and the ref (so the snippet) of
\* the first mention of that identity; and every node has one ref for each
\* application of a page that mentions it.
FirstSeenWins ==
    /\ InPage =>
          /\ \A k \in 1..Len(unique), h \in 1..Len(unique) :
                unique[k].entity_id = unique[h].entity_id => k = h
          /\ {unique[k].entity_id : k \in 1..Len(unique)} = PageIds(pages[i])
          /\ \A k \in 1..Len(unique) :
                LET ent == FirstMention(pages[i], unique[k].entity_id)
                IN /\ unique[k].type = ent.label_
                   /\ unique[k].name = norm_text(EntText(pages[i], ent))
                   /\ unique[k].ref
                         = make_ref(pages[i], get_snippet_for_entity(pages[i], ent))
    /\ BetweenBatches =>
          \A k \in 1..Len(nodes) :
              Len(nodes[k].refs)
                 = Cardinality(Mentioning(nodes[k].entity_id, EntitiesApplied))

FirstMentionKept ==
    /\ pc = "pairs"
    /\ i = 2
    /\ pages[1] = PageD1
    /\ pages[2] = PageD6
    /\ Len(unique) = 1
    /\ unique[1].name = <<"P", "a", "r", "i", "s">>
    /\ \E k \in 1..Len(nodes) : nodes[k].name = <<"P", "a", "r", "i", "s">>
                                   /\ Len(nodes[k].refs) = 2

IsPrefix(s, t) == Len(s) <= Len(t) /\ SubSeq(t, 1, Len(s)) = s

\* C15: in every step every node and every edge stays, with its label and
\* entity_id or its endpoints, and its refs list before the step is a prefix
\* of its refs list after it.
AppendOnly ==
    [][/\ Len(nodes') >= Len(nodes)
       /\ \A k \in 1..Len(nodes) :
             /\ nodes'[k].label = nodes[k].label
             /\ nodes'[k].entity_id = nodes[k].entity_id
             /\ IsPrefix(nodes[k].refs, nodes'[k].refs)
       /\ Len(edges') >= Len(edges)
       /\ \A k \in 1..Len(edges) :
             /\ edges'[k].src = edges[k].src
             /\ edges'[k].dst = edges[k].dst
             /\ IsPrefix(edges[k].refs, edges'[k].refs)]_vars

RefsAccumulated ==
    /\ pc = "done"
    /\ pages = <<PageD1, PageD4, PageD1>>
    /\ \E k \in 1..Len(nodes) : Len(nodes[k].refs) = 3
    /\ \E k \in 1..Len(edges) : Len(edges[k].refs) = 2

\* C16: when no page is half written, the name of a node is the normalized
\* text of the first mention of its identity on the last applied page that
\* mentions it; and the writes of a page leave the nodes it does not mention
\* as they are.
LastSeenName ==
    /\ [](BetweenBatches =>
             \A k \in 1..Len(nodes) :
                 LET on == Mentioning(nodes[k].entity_id, EntitiesApplied)
                     last == CHOOSE j \in on : \A h \in on : h <= j
                 IN /\ on # {}
                    /\ nodes[k].name =
                          norm_text(EntText(pages[last],
                              FirstMention(pages[last], nodes[k].entity_id))))
    /\ [][InPage =>
             \A k \in 1..Len(nodes) :
                 nodes[k].entity_id \notin PageIds(pages[i])
                    => nodes'[k] = nodes[k]]_vars

NameRefreshed ==
    /\ pc = "done"
    /\ pages = <<PageD2, PageD5, PageD3>>
    /\ Len(nodes) = 2
    /\ \E k \in 1..Len(nodes) : nodes[k].name = <<"B", "o", "b", " ", "L", "e", "e">>

\* The loop is at a page on which no mention is under an allowed label.
EmptyPage == pc = "nlp" /\ i \in 1..Len(pages) /\ PageIds(pages[i]) = {}

\* C17: no write of the run belongs to a page without an allowed mention; the
\* step taken at such a page leaves the nodes, the edges and the writes as
\* they are, and unless the NER model fails the loop is then at the next page.
SkipsEmptyPage ==
    /\ [](\A w \in 1..Len(writes) :
             writes[w].page >= 1 => PageIds(pages[writes[w].page]) # {})
    /\ [][EmptyPage =>
             /\ nodes' = nodes
             /\ edges' = edges
             /\ writes' = writes
             /\ pc' # "failed" => (pc' = "nlp" /\ i' = i + 1)]_vars

EmptyPageSkipped ==
    /\ pc = "done"
    /\ pages = <<PageD1, PageD3, PageD6>>
    /\ Len(nodes) = 3
    /\ \A w \in 1..Len(writes) : writes[w].page # 2
    /\ \E w \in 1..Len(writes) : writes[w].page = 3 /\ writes[w].ok

\* C18: the ends of every edge are nodes; the entity writes of a page come
\* before its edge write; when the edge batch of a page is about to be sent,
\* each of its pairs matches a node at either end; and every two identities
\* of a page applied in full are joined by an edge.
EndpointsExist ==
    /\ \A k \in 1..Len(edges) :
          edges[k].src \in 1..Len(nodes) /\ edges[k].dst \in 1..Len(nodes)
    /\ \A w \in 1..Len(writes), v \in 1..Len(writes) :
          (/\ writes[w].page >= 1
           /\ writes[w].page = writes[v].page
           /\ writes[w].op = "entity"
           /\ writes[v].op = "edge") => w < v
    /\ pc = "upsert_edges" =>
          \A k \in 1..Len(pairs) : MatchRows(nodes, pairs[k]) # <<>>
    /\ i >= 1 =>
          \A j \in 1..(i - 1) : \A x \in PageIds(pages[j]), y \in PageIds(pages[j]) :
              x # y => Between(x, y) # {}

CrossLabelEdge ==
    /\ pc = "done"
    /\ pages = <<PageD4>>
    /\ Len(writes) = 5
    /\ Len(edges) = 1
    /\ nodes[edges[1].src].label = "Location"
    /\ nodes[edges[1].dst].label = "Person"

\* C19: every edge has as many refs as its count, and a count of at least 1,
\* in every state of the run, the states left by a failure included.
EdgeRefsMatchCount ==
    \A k \in 1..Len(edges) :
        edges[k].count = Len(edges[k].refs) /\ edges[k].count >= 1

EdgeCountedAfterFailure ==
    /\ pc = "failed"
    /\ pages = <<PageD4, PageD4, PageD1>>
    /\ i = 3
    /\ ~LastWrite.ok
    /\ LastWrite.op = "edge"
    /\ Len(edges) = 1
    /\ edges[1].count = 2

\* The type an entity_id starts with.
HasType(eid, t) ==
    /\ Len(eid) > Len(TagChars(t))
    /\ SubSeq(eid, 1, Len(TagChars(t)) + 1) = TagChars(t) \o <<":">>

\* C20: no two nodes have the same entity_id, whatever their labels; the
\* label of a node is the one LABEL_MAP gives the type its entity_id starts
\* with; and when the edge batch of a page is about to be sent, each of its
\* pairs matches exactly one row of nodes.
OneNodePerId ==
    /\ \A k \in 1..Len(nodes), h \in 1..Len(nodes) :
          nodes[k].entity_id = nodes[h].entity_id => k = h
    /\ \A k \in 1..Len(nodes) :
          \E t \in ALLOWED_TYPES :
              HasType(nodes[k].entity_id, t) /\ nodes[k].label = LABEL_MAP(t)
    /\ pc = "upsert_edges" =>
          \A k \in 1..Len(pairs) : Len(MatchRows(nodes, pairs[k])) = 1

SameNameTwoLabels ==
    /\ pc = "upsert_edges"
    /\ pages[i] = PageD4
    /\ i = 2
    /\ pages[1] = PageD6
    /\ Len(nodes) = 2
    /\ Len(pairs) = 1
    /\ nodes[1].label = "Location"
    /\ nodes[2].label = "Person"
    /\ nodes[1].name = nodes[2].name

====
